---- MODULE Spec2Model ----
(***************************************************************************)
(* Localization merge scripts of my-detail-area:                           *)
(*   scripts/add-vin-translations.py        (add_translations_to_json)     *)
(*   scripts/fix-vin-scanner-translations.py (fix_translations)            *)
(* Each script's main() walks the three locale files en, es, pt-BR, loads  *)
(* the JSON document, merges a hard-coded patch into it and rewrites the   *)
(* file in place.                                                          *)
(*                                                                         *)
(* A JSON object is an insertion-ordered mapping (Python dict), modelled   *)
(* as a sequence of entries with distinct names.  A document is a sequence *)
(* of sections [name, type, items]; type "dict" is a mapping whose items   *)
(* are [k, v] pairs, any other type is a JSON value that is no mapping.    *)
(* Non-ASCII letters of the translated strings are written in ASCII.       *)
(*                                                                         *)
(* The last part models the Administration lookup of test-modal-simple.py  *)
(* (variable modal).                                                       *)
(***************************************************************************)
EXTENDS Integers, Sequences, FiniteSets, TLC

VARIABLES
    disk,           \* locale -> file on disk
    disk0,          \* locale -> file on disk when the current run of main started
    script,         \* which script is running: "add" or "fix"
    run,            \* number of the current run of a script (1, 2, ...)
    prev_script,    \* script of the previous run ("none" in the first run)
    prev_result,    \* per-locale return values of the previous run
    pc,             \* "loop" | "merged" | "opened" | "done" ("idle": no script runs)
    idx,            \* position of main's for loop in files.items()
    data,           \* the per-locale function's local `data`
    added_keys,     \* the per-locale function's local counter
    updated_keys,   \* the per-locale function's local counter
    added_log,      \* full keys printed as "+ Added" by the running call
    success_count,  \* main's local counter
    exit_code,      \* main's return value, -1 while main is running
    result,         \* locale -> "none" | "True" | "False" (return value in this run)
    report,         \* locale -> counts printed by a successful call in this run
    wfail,          \* locale -> the write of this locale raised in this run
    files,          \* the locales in the order main's files dict yields them
    modal           \* state of test-modal-simple.py's Administration lookup

vars == <<disk, disk0, script, run, prev_script, prev_result, pc, idx, data,
          added_keys, updated_keys, added_log, success_count, exit_code,
          result, report, wfail, files, modal>>

(***************************************************************************)
(* Bounds of the model.                                                    *)
(***************************************************************************)
\* total number of keys (over all sections) of a generated starting document
MaxEntries == 2
\* number of consecutive script runs over the same files
MaxRuns == 2

(***************************************************************************)
(* Configuration and patch data.                                           *)
(***************************************************************************)
\* main: files = {"en": ..., "es": ..., "pt-BR": ...}, in iteration order
Locales == <<"en", "es", "pt-BR">>

LocaleSet == {Locales[i] : i \in DOMAIN Locales}

Scripts == {"add", "fix"}

HUB == "vin_scanner_hub"

Item(k, v) == [k |-> k, v |-> v]

\* TRANSLATIONS[lang]: sections in literal order; the model keeps the first
\* two sections with their leading keys.
TRANSLATIONS(lang) ==
    IF lang = "en" THEN
        << [name |-> HUB,
            keys |-> << Item("title", "VIN Scanner"),
                        Item("subtitle", "Comprehensive VIN scanning and analysis tools") >>],
           [name |-> "quick_scan",
            keys |-> << Item("title", "Quick Scan") >>] >>
    ELSE IF lang = "es" THEN
        << [name |-> HUB,
            keys |-> << Item("title", "Escaner VIN"),
                        Item("subtitle", "Herramientas completas de escaneo y analisis de VIN") >>],
           [name |-> "quick_scan",
            keys |-> << Item("title", "Escaneo Rapido") >>] >>
    ELSE
        << [name |-> HUB,
            keys |-> << Item("title", "Scanner VIN"),
                        Item("subtitle", "Ferramentas completas de digitalizacao e analise de VIN") >>],
           [name |-> "quick_scan",
            keys |-> << Item("title", "Digitalizacao Rapida") >>] >>

\* MISSING_KEYS[lang]: keys of vin_scanner_hub in literal order; the model
\* keeps the two leading keys.
MISSING_KEYS(lang) ==
    IF lang = "en" THEN
        << Item("upload_image", "Upload Image"),
           Item("upload_image_desc", "Upload VIN sticker photo for analysis") >>
    ELSE IF lang = "es" THEN
        << Item("upload_image", "Subir Imagen"),
           Item("upload_image_desc", "Subir foto de la calcomania VIN para analisis") >>
    ELSE
        << Item("upload_image", "Carregar Imagem"),
           Item("upload_image_desc", "Carregar foto do adesivo VIN para analise") >>

\* The patch a script applies, as a sequence of sections.
PatchOf(s, lang) ==
    IF s = "add" THEN TRANSLATIONS(lang)
    ELSE << [name |-> HUB, keys |-> MISSING_KEYS(lang)] >>

(***************************************************************************)
(* Python dict operations on the sequence representation.                  *)
(***************************************************************************)
\* `section in data`
HasSection(d, s) == \E i \in DOMAIN d : d[i].name = s

SectionIndex(d, s) == CHOOSE i \in DOMAIN d : d[i].name = s

\* `key in data[section]` for a dict
HasKey(items, k) == \E i \in DOMAIN items : items[i].k = k

KeyIndex(items, k) == CHOOSE i \in DOMAIN items : items[i].k = k

\* data[section][key]
GetItem(items, k) == items[KeyIndex(items, k)].v

\* variant: the value of a key that exists is kept (assignment only for new keys)
SetItemKeep(items, k, v) ==
    IF HasKey(items, k) THEN items ELSE Append(items, Item(k, v))

\* variant: an existing key is removed and set again, which moves it to the end
SetItemMoveToEnd(items, k, v) ==
    Append(SelectSeq(items, LAMBDA x : x.k # k), Item(k, v))

\* data[section][key] = value: an existing key keeps its position, a new
\* key is appended
SetItem(items, k, v) ==
    IF HasKey(items, k)
    THEN [items EXCEPT ![KeyIndex(items, k)].v = v]
    ELSE Append(items, Item(k, v))

\* Python's order of the key strings (code point order), as ranks
KeyOrder ==
    << "advanced_scanner", "ai_powered", "analytics", "analytics_desc",
       "analyzing_vin", "auto_corrected", "batch", "batch_processing",
       "camera_mode", "close_scanner", "confidence", "config",
       "corrections_applied", "current_vin", "decoding_vin", "desktop_optimized",
       "help", "hist", "history", "integration_guide",
       "integration_guide_desc", "invalid_vin_warning", "legacy", "low_confidence_warning",
       "manual_input_label", "manual_input_placeholder", "mobile_optimized", "multi_engine",
       "no_scans", "open_scanner", "processing_image", "quick",
       "quick_mode", "quick_mode_desc", "quick_scan", "quick_scan_desc",
       "ready_to_scan", "recent_scans", "retry_scan", "save",
       "scan", "scan_camera", "scan_camera_desc", "scan_error",
       "scan_history", "scan_history_desc", "scan_success", "scan_upload",
       "scan_upload_desc", "scanner", "scanner_description", "settings",
       "smart", "smart_focus", "smart_scan_description", "start_scanning",
       "start_smart_scan", "subtitle", "switch_mode", "tablet_optimized",
       "title", "upload_image", "upload_image_desc", "upload_mode",
       "validating_vin", "view_all", "vin_analyzer", "vin_analyzer_desc",
       "vin_detected_error", "vin_detected_success" >>

KeyRank(k) == CHOOSE i \in DOMAIN KeyOrder : KeyOrder[i] = k

\* sorted(d.items()) by insertion into an ordered sequence
RECURSIVE InsertSorted(_, _)
InsertSorted(sorted, it) ==
    IF sorted = << >> THEN << it >>
    ELSE IF KeyRank(it.k) < KeyRank(Head(sorted).k) THEN << it >> \o sorted
    ELSE << Head(sorted) >> \o InsertSorted(Tail(sorted), it)

\* variant: the sorted list is not used
SortedItemsNone(items) == items

RECURSIVE SortedItems(_)
SortedItems(items) ==
    IF items = << >> THEN << >>
    ELSE CHOOSE r \in { InsertSorted(rest, Head(items)) :
                         rest \in { SortedItems(Tail(items)) } } : TRUE

(***************************************************************************)
(* The merge loops of the per-locale functions.  A merge state st holds    *)
(* the function's locals; st.raised records that a statement raised (the   *)
(* section's value is no dict), which ends the try block.                  *)
(***************************************************************************)
MergeStart(d) ==
    [data |-> d, added_keys |-> 0, updated_keys |-> 0, added_log |-> {}, raised |-> FALSE]

\* variant: data[section] = {} also when the section exists
EnsureSectionReplace(d, s) ==
    IF HasSection(d, s)
    THEN [d EXCEPT ![SectionIndex(d, s)] = [name |-> s, type |-> "dict", items |-> << >>]]
    ELSE Append(d, [name |-> s, type |-> "dict", items |-> << >>])

\* variant: a section whose value is no dict is replaced by {}
EnsureSectionCoerce(d, s) ==
    IF HasSection(d, s) /\ d[SectionIndex(d, s)].type = "dict" THEN d
    ELSE IF HasSection(d, s)
    THEN [d EXCEPT ![SectionIndex(d, s)] = [name |-> s, type |-> "dict", items |-> << >>]]
    ELSE Append(d, [name |-> s, type |-> "dict", items |-> << >>])

\* if section not in data: data[section] = {}
EnsureSection(d, s) ==
    IF HasSection(d, s) THEN d
    ELSE Append(d, [name |-> s, type |-> "dict", items |-> << >>])

\* variant: the key is looked up in the document, where no section bears
\* the name of a key, instead of in the section
IsAddAlways(items, it) == TRUE

\* variant: a key whose value the patch changes counts as added too
IsAddOrChanged(items, it) == ~HasKey(items, it.k) \/ GetItem(items, it.k) # it.v

\* if key not in data[section]:
IsAdd(items, it) == ~HasKey(items, it.k)

\* variant: every key that exists counts as updated
IsUpdateAlways(items, it) == HasKey(items, it.k)

\* elif data[section][key] != value:
IsUpdate(items, it) == HasKey(items, it.k) /\ GetItem(items, it.k) # it.v

\* Body of the key loop: count, then data[section][key] = value.  On a value
\* that is no dict one of `key not in ...`, `...[key]` or the item
\* assignment raises TypeError.
MergeKey(st, s, it) ==
    LET i == SectionIndex(st.data, s)
        sec == st.data[i]
    IN  IF st.raised THEN st
        ELSE IF sec.type # "dict" THEN [st EXCEPT !.raised = TRUE]
        ELSE [data |-> [st.data EXCEPT ![i].items = SetItem(sec.items, it.k, it.v)],
              added_keys |-> IF IsAdd(sec.items, it)
                             THEN st.added_keys + 1 ELSE st.added_keys,
              updated_keys |-> IF ~IsAdd(sec.items, it) /\ IsUpdate(sec.items, it)
                               THEN st.updated_keys + 1 ELSE st.updated_keys,
              added_log |-> IF IsAdd(sec.items, it)
                            THEN st.added_log \cup {<<s, it.k>>} ELSE st.added_log,
              raised |-> FALSE]

\* variant: the key loop ends after its first key
MergeKeysFirstOnly(st, s, keys) ==
    IF keys = << >> THEN st ELSE MergeKey(st, s, Head(keys))

\* for key, value in keys.items(): ...
\* (the state after the first key is bound once, as a value)
RECURSIVE MergeKeys(_, _, _)
MergeKeys(st, s, keys) ==
    IF keys = << >> THEN st
    ELSE CHOOSE r \in { MergeKeys(after, s, Tail(keys)) :
                         after \in { MergeKey(st, s, Head(keys)) } } : TRUE

\* variant: the section loop ends after its first section
MergeSectionsFirstOnly(st, patch) ==
    IF patch = << >> \/ st.raised THEN st
    ELSE MergeKeys([st EXCEPT !.data = EnsureSection(st.data, Head(patch).name)],
                   Head(patch).name, Head(patch).keys)

\* for section, keys in new_translations.items(): ...
RECURSIVE MergeSections(_, _)
MergeSections(st, patch) ==
    IF patch = << >> \/ st.raised THEN st
    ELSE CHOOSE r \in { MergeSections(after, Tail(patch)) :
                         after \in { MergeKeys([st EXCEPT !.data =
                                                   EnsureSection(st.data, Head(patch).name)],
                                                Head(patch).name, Head(patch).keys) } } : TRUE

\* add_translations_to_json, from the loaded data to the data it writes
AddMerge(d, lang) == MergeSections(MergeStart(d), TRANSLATIONS(lang))

\* variant: the section is removed and set again, which moves it to the end
SortHubMoveToEnd(d) ==
    LET i == SectionIndex(d, HUB)
    IN  Append(SelectSeq(d, LAMBDA x : x.name # HUB),
               [d[i] EXCEPT !.items = SortedItems(d[i].items)])

\* data['vin_scanner_hub'] = dict(sorted(data['vin_scanner_hub'].items()))
SortHub(d) ==
    LET i == SectionIndex(d, HUB)
    IN  [d EXCEPT ![i].items = SortedItems(d[i].items)]

\* variant: data['vin_scanner_hub'] = {} without the membership test
FixMergeFresh(d, lang) ==
    LET st == MergeKeys(MergeStart(EnsureSectionReplace(d, HUB)), HUB, MISSING_KEYS(lang))
    IN  IF st.raised THEN st ELSE [st EXCEPT !.data = SortHub(st.data)]

\* fix_translations, from the loaded data to the data it writes
FixMerge(d, lang) ==
    CHOOSE r \in { IF st.raised THEN st ELSE [st EXCEPT !.data = SortHub(st.data)] :
                    st \in { MergeKeys(MergeStart(EnsureSection(d, HUB)), HUB,
                                       MISSING_KEYS(lang)) } } : TRUE

MergeOf(s, d, lang) == IF s = "add" THEN AddMerge(d, lang) ELSE FixMerge(d, lang)

(***************************************************************************)
(* The patch literals in full (the inverted marks of the Spanish strings   *)
(* are left out).                                                          *)
(***************************************************************************)
\* TRANSLATIONS[lang], every section and key in literal order
TRANSLATIONS_ALL(lang) ==
    IF lang = "en" THEN
        << [name |-> HUB,
            keys |-> << Item("title", "VIN Scanner"),
                        Item("subtitle", "Comprehensive VIN scanning and analysis tools"),
                        Item("scan_camera", "Scan with Camera"),
                        Item("scan_camera_desc", "Scan VIN from vehicle sticker using camera"),
                        Item("quick_scan", "Quick Scan"),
                        Item("quick_scan_desc", "Fast VIN scanning with automatic detection"),
                        Item("scan_upload", "Upload Image"),
                        Item("scan_upload_desc", "Upload VIN sticker photo for analysis"),
                        Item("vin_analyzer", "VIN Analyzer"),
                        Item("vin_analyzer_desc", "Decode and validate VIN details"),
                        Item("scan_history", "Scan History"),
                        Item("scan_history_desc", "View previous VIN scans and results"),
                        Item("integration_guide", "Integration Guide"),
                        Item("integration_guide_desc", "How to use VIN scanner in your workflow"),
                        Item("recent_scans", "Recent Scans"),
                        Item("view_all", "View All Scans"),
                        Item("no_scans", "No scans yet"),
                        Item("start_scanning", "Start by scanning a VIN"),
                        Item("scan_success", "VIN scanned successfully"),
                        Item("scan_error", "Scan failed"),
                        Item("retry_scan", "Retry Scan"),
                        Item("vin_detected_success", "VIN detected successfully"),
                        Item("vin_detected_error", "Failed to detect VIN"),
                        Item("processing_image", "Processing image..."),
                        Item("analyzing_vin", "Analyzing VIN..."),
                        Item("validating_vin", "Validating VIN..."),
                        Item("decoding_vin", "Decoding vehicle information..."),
                        Item("confidence", "Confidence"),
                        Item("low_confidence_warning", "Low confidence scan. Please verify VIN manually."),
                        Item("invalid_vin_warning", "Invalid VIN detected. Please rescan or enter manually."),
                        Item("auto_corrected", "VIN auto-corrected ({{count}} changes)"),
                        Item("corrections_applied", "Corrections applied"),
                        Item("open_scanner", "Open Scanner"),
                        Item("close_scanner", "Close Scanner"),
                        Item("switch_mode", "Switch Mode"),
                        Item("camera_mode", "Camera Mode"),
                        Item("upload_mode", "Upload Mode"),
                        Item("help", "Help & Tips"),
                        Item("settings", "Scanner Settings") >>],
           [name |-> "quick_scan",
            keys |-> << Item("title", "Quick Scan"),
                        Item("description", "Fast VIN scanning with automatic detection"),
                        Item("start_scan", "Start Scan"),
                        Item("stop_scan", "Stop Scan"),
                        Item("scanning", "Scanning..."),
                        Item("position_vin", "Position VIN in camera frame"),
                        Item("hold_steady", "Hold steady..."),
                        Item("detecting", "Detecting VIN..."),
                        Item("vin_found", "VIN Found!"),
                        Item("processing", "Processing..."),
                        Item("scan_complete", "Scan Complete"),
                        Item("use_this_vin", "Use This VIN"),
                        Item("scan_another", "Scan Another"),
                        Item("tips", "Tips for best results"),
                        Item("tip_lighting", "Ensure good lighting"),
                        Item("tip_focus", "Keep VIN in focus and clear") >>],
           [name |-> "vin_scanner_history",
            keys |-> << Item("title", "Scan History"),
                        Item("subtitle", "Previous VIN scans and results"),
                        Item("filter_all", "All Scans"),
                        Item("filter_valid", "Valid Only"),
                        Item("filter_invalid", "Invalid Only"),
                        Item("filter_corrected", "Auto-corrected"),
                        Item("sort_newest", "Newest First"),
                        Item("sort_oldest", "Oldest First"),
                        Item("sort_confidence", "Highest Confidence"),
                        Item("clear_history", "Clear History"),
                        Item("confirm_clear", "Are you sure you want to clear scan history?"),
                        Item("history_cleared", "Scan history cleared"),
                        Item("no_history", "No scan history"),
                        Item("scanned_at", "Scanned at"),
                        Item("confidence_score", "Confidence: {{score}}%"),
                        Item("status_valid", "Valid"),
                        Item("status_invalid", "Invalid"),
                        Item("status_corrected", "Auto-corrected"),
                        Item("view_details", "View Details"),
                        Item("rescan", "Rescan") >>],
           [name |-> "vin_integration",
            keys |-> << Item("title", "VIN Scanner Integration"),
                        Item("subtitle", "How to use VIN scanner in your workflow"),
                        Item("step_1_title", "1. Open Scanner"),
                        Item("step_1_desc", "Click the QR code icon next to any VIN input field"),
                        Item("step_2_title", "2. Scan VIN"),
                        Item("step_2_desc", "Position the VIN sticker in camera frame or upload an image"),
                        Item("step_3_title", "3. Auto-decode"),
                        Item("step_3_desc", "VIN is automatically decoded and vehicle info populated"),
                        Item("available_in", "Available in:"),
                        Item("sales_orders", "Sales Orders"),
                        Item("service_orders", "Service Orders"),
                        Item("recon_orders", "Recon Orders"),
                        Item("car_wash", "Car Wash Orders"),
                        Item("best_practices", "Best Practices"),
                        Item("practice_lighting", "Use good lighting for best results"),
                        Item("practice_steady", "Hold device steady while scanning"),
                        Item("practice_verify", "Always verify decoded information") >>],
           [name |-> "vin_analyzer",
            keys |-> << Item("title", "VIN Analysis"),
                        Item("subtitle", "Decode and validate VIN details"),
                        Item("enter_vin", "Enter a VIN to see detailed analysis"),
                        Item("vin_input_label", "Vehicle Identification Number (VIN)"),
                        Item("analyze_button", "Analyze VIN"),
                        Item("analyzing", "Analyzing..."),
                        Item("status_valid", "Valid VIN"),
                        Item("status_invalid", "Invalid VIN"),
                        Item("check_digit_valid", "Check digit valid"),
                        Item("check_digit_invalid", "Check digit invalid"),
                        Item("manufacturer_info", "Manufacturer Info"),
                        Item("wmi_label", "WMI (1-3):"),
                        Item("wmi_desc", "World Manufacturer Identifier"),
                        Item("vds_label", "VDS (4-9):"),
                        Item("vds_desc", "Vehicle Descriptor Section"),
                        Item("vis_label", "VIS (10-17):"),
                        Item("vis_desc", "Vehicle Identifier Section"),
                        Item("decoded_info", "Decoded Information"),
                        Item("no_data", "No decoded data available") >>] >>
    ELSE IF lang = "es" THEN
        << [name |-> HUB,
            keys |-> << Item("title", "Escaner VIN"),
                        Item("subtitle", "Herramientas completas de escaneo y analisis de VIN"),
                        Item("scan_camera", "Escanear con Camara"),
                        Item("scan_camera_desc", "Escanear VIN de la calcomania del vehiculo usando la camara"),
                        Item("quick_scan", "Escaneo Rapido"),
                        Item("quick_scan_desc", "Escaneo VIN rapido con deteccion automatica"),
                        Item("scan_upload", "Subir Imagen"),
                        Item("scan_upload_desc", "Subir foto de la calcomania VIN para analisis"),
                        Item("vin_analyzer", "Analizador VIN"),
                        Item("vin_analyzer_desc", "Decodificar y validar detalles del VIN"),
                        Item("scan_history", "Historial de Escaneos"),
                        Item("scan_history_desc", "Ver escaneos VIN previos y resultados"),
                        Item("integration_guide", "Guia de Integracion"),
                        Item("integration_guide_desc", "Como usar el escaner VIN en tu flujo de trabajo"),
                        Item("recent_scans", "Escaneos Recientes"),
                        Item("view_all", "Ver Todos los Escaneos"),
                        Item("no_scans", "Aun no hay escaneos"),
                        Item("start_scanning", "Comienza escaneando un VIN"),
                        Item("scan_success", "VIN escaneado exitosamente"),
                        Item("scan_error", "Escaneo fallido"),
                        Item("retry_scan", "Reintentar Escaneo"),
                        Item("vin_detected_success", "VIN detectado exitosamente"),
                        Item("vin_detected_error", "Error al detectar VIN"),
                        Item("processing_image", "Procesando imagen..."),
                        Item("analyzing_vin", "Analizando VIN..."),
                        Item("validating_vin", "Validando VIN..."),
                        Item("decoding_vin", "Decodificando informacion del vehiculo..."),
                        Item("confidence", "Confianza"),
                        Item("low_confidence_warning", "Escaneo de baja confianza. Por favor verifica el VIN manualmente."),
                        Item("invalid_vin_warning", "VIN invalido detectado. Por favor reescanea o ingresa manualmente."),
                        Item("auto_corrected", "VIN auto-corregido ({{count}} cambios)"),
                        Item("corrections_applied", "Correcciones aplicadas"),
                        Item("open_scanner", "Abrir Escaner"),
                        Item("close_scanner", "Cerrar Escaner"),
                        Item("switch_mode", "Cambiar Modo"),
                        Item("camera_mode", "Modo Camara"),
                        Item("upload_mode", "Modo Subir"),
                        Item("help", "Ayuda y Consejos"),
                        Item("settings", "Configuracion del Escaner") >>],
           [name |-> "quick_scan",
            keys |-> << Item("title", "Escaneo Rapido"),
                        Item("description", "Escaneo VIN rapido con deteccion automatica"),
                        Item("start_scan", "Iniciar Escaneo"),
                        Item("stop_scan", "Detener Escaneo"),
                        Item("scanning", "Escaneando..."),
                        Item("position_vin", "Posiciona el VIN en el marco de la camara"),
                        Item("hold_steady", "Manten firme..."),
                        Item("detecting", "Detectando VIN..."),
                        Item("vin_found", "VIN Encontrado!"),
                        Item("processing", "Procesando..."),
                        Item("scan_complete", "Escaneo Completo"),
                        Item("use_this_vin", "Usar Este VIN"),
                        Item("scan_another", "Escanear Otro"),
                        Item("tips", "Consejos para mejores resultados"),
                        Item("tip_lighting", "Asegura buena iluminacion"),
                        Item("tip_focus", "Manten el VIN enfocado y claro") >>],
           [name |-> "vin_scanner_history",
            keys |-> << Item("title", "Historial de Escaneos"),
                        Item("subtitle", "Escaneos VIN previos y resultados"),
                        Item("filter_all", "Todos los Escaneos"),
                        Item("filter_valid", "Solo Validos"),
                        Item("filter_invalid", "Solo Invalidos"),
                        Item("filter_corrected", "Auto-corregidos"),
                        Item("sort_newest", "Mas Recientes Primero"),
                        Item("sort_oldest", "Mas Antiguos Primero"),
                        Item("sort_confidence", "Mayor Confianza"),
                        Item("clear_history", "Limpiar Historial"),
                        Item("confirm_clear", "Estas seguro de que quieres limpiar el historial de escaneos?"),
                        Item("history_cleared", "Historial de escaneos limpiado"),
                        Item("no_history", "Sin historial de escaneos"),
                        Item("scanned_at", "Escaneado a las"),
                        Item("confidence_score", "Confianza: {{score}}%"),
                        Item("status_valid", "Valido"),
                        Item("status_invalid", "Invalido"),
                        Item("status_corrected", "Auto-corregido"),
                        Item("view_details", "Ver Detalles"),
                        Item("rescan", "Reescanear") >>],
           [name |-> "vin_integration",
            keys |-> << Item("title", "Integracion del Escaner VIN"),
                        Item("subtitle", "Como usar el escaner VIN en tu flujo de trabajo"),
                        Item("step_1_title", "1. Abrir Escaner"),
                        Item("step_1_desc", "Haz clic en el icono de codigo QR junto a cualquier campo de entrada VIN"),
                        Item("step_2_title", "2. Escanear VIN"),
                        Item("step_2_desc", "Posiciona la calcomania VIN en el marco de la camara o sube una imagen"),
                        Item("step_3_title", "3. Auto-decodificar"),
                        Item("step_3_desc", "El VIN se decodifica automaticamente y se rellena la info del vehiculo"),
                        Item("available_in", "Disponible en:"),
                        Item("sales_orders", "Ordenes de Venta"),
                        Item("service_orders", "Ordenes de Servicio"),
                        Item("recon_orders", "Ordenes de Reconversion"),
                        Item("car_wash", "Ordenes de Lavado"),
                        Item("best_practices", "Mejores Practicas"),
                        Item("practice_lighting", "Usa buena iluminacion para mejores resultados"),
                        Item("practice_steady", "Manten el dispositivo firme mientras escaneas"),
                        Item("practice_verify", "Siempre verifica la informacion decodificada") >>],
           [name |-> "vin_analyzer",
            keys |-> << Item("title", "Analisis de VIN"),
                        Item("subtitle", "Decodificar y validar detalles del VIN"),
                        Item("enter_vin", "Ingresa un VIN para ver el analisis detallado"),
                        Item("vin_input_label", "Numero de Identificacion del Vehiculo (VIN)"),
                        Item("analyze_button", "Analizar VIN"),
                        Item("analyzing", "Analizando..."),
                        Item("status_valid", "VIN Valido"),
                        Item("status_invalid", "VIN Invalido"),
                        Item("check_digit_valid", "Digito de verificacion valido"),
                        Item("check_digit_invalid", "Digito de verificacion invalido"),
                        Item("manufacturer_info", "Informacion del Fabricante"),
                        Item("wmi_label", "WMI (1-3):"),
                        Item("wmi_desc", "Identificador Mundial del Fabricante"),
                        Item("vds_label", "VDS (4-9):"),
                        Item("vds_desc", "Seccion Descriptora del Vehiculo"),
                        Item("vis_label", "VIS (10-17):"),
                        Item("vis_desc", "Seccion Identificadora del Vehiculo"),
                        Item("decoded_info", "Informacion Decodificada"),
                        Item("no_data", "No hay datos decodificados disponibles") >>] >>
    ELSE
        << [name |-> HUB,
            keys |-> << Item("title", "Scanner VIN"),
                        Item("subtitle", "Ferramentas completas de digitalizacao e analise de VIN"),
                        Item("scan_camera", "Digitalizar com Camera"),
                        Item("scan_camera_desc", "Digitalizar VIN do adesivo do veiculo usando camera"),
                        Item("quick_scan", "Digitalizacao Rapida"),
                        Item("quick_scan_desc", "Digitalizacao VIN rapida com deteccao automatica"),
                        Item("scan_upload", "Carregar Imagem"),
                        Item("scan_upload_desc", "Carregar foto do adesivo VIN para analise"),
                        Item("vin_analyzer", "Analisador VIN"),
                        Item("vin_analyzer_desc", "Decodificar e validar detalhes do VIN"),
                        Item("scan_history", "Historico de Digitalizacoes"),
                        Item("scan_history_desc", "Ver digitalizacoes VIN anteriores e resultados"),
                        Item("integration_guide", "Guia de Integracao"),
                        Item("integration_guide_desc", "Como usar o scanner VIN no seu fluxo de trabalho"),
                        Item("recent_scans", "Digitalizacoes Recentes"),
                        Item("view_all", "Ver Todas as Digitalizacoes"),
                        Item("no_scans", "Ainda nao ha digitalizacoes"),
                        Item("start_scanning", "Comece digitalizando um VIN"),
                        Item("scan_success", "VIN digitalizado com sucesso"),
                        Item("scan_error", "Digitalizacao falhou"),
                        Item("retry_scan", "Tentar Novamente"),
                        Item("vin_detected_success", "VIN detectado com sucesso"),
                        Item("vin_detected_error", "Erro ao detectar VIN"),
                        Item("processing_image", "Processando imagem..."),
                        Item("analyzing_vin", "Analisando VIN..."),
                        Item("validating_vin", "Validando VIN..."),
                        Item("decoding_vin", "Decodificando informacoes do veiculo..."),
                        Item("confidence", "Confianca"),
                        Item("low_confidence_warning", "Digitalizacao de baixa confianca. Por favor verifique o VIN manualmente."),
                        Item("invalid_vin_warning", "VIN invalido detectado. Por favor digitalize novamente ou insira manualmente."),
                        Item("auto_corrected", "VIN auto-corrigido ({{count}} alteracoes)"),
                        Item("corrections_applied", "Correcoes aplicadas"),
                        Item("open_scanner", "Abrir Scanner"),
                        Item("close_scanner", "Fechar Scanner"),
                        Item("switch_mode", "Mudar Modo"),
                        Item("camera_mode", "Modo Camera"),
                        Item("upload_mode", "Modo Carregar"),
                        Item("help", "Ajuda e Dicas"),
                        Item("settings", "Configuracoes do Scanner") >>],
           [name |-> "quick_scan",
            keys |-> << Item("title", "Digitalizacao Rapida"),
                        Item("description", "Digitalizacao VIN rapida com deteccao automatica"),
                        Item("start_scan", "Iniciar Digitalizacao"),
                        Item("stop_scan", "Parar Digitalizacao"),
                        Item("scanning", "Digitalizando..."),
                        Item("position_vin", "Posicione o VIN no quadro da camera"),
                        Item("hold_steady", "Mantenha firme..."),
                        Item("detecting", "Detectando VIN..."),
                        Item("vin_found", "VIN Encontrado!"),
                        Item("processing", "Processando..."),
                        Item("scan_complete", "Digitalizacao Completa"),
                        Item("use_this_vin", "Usar Este VIN"),
                        Item("scan_another", "Digitalizar Outro"),
                        Item("tips", "Dicas para melhores resultados"),
                        Item("tip_lighting", "Garanta boa iluminacao"),
                        Item("tip_focus", "Mantenha o VIN focado e claro") >>],
           [name |-> "vin_scanner_history",
            keys |-> << Item("title", "Historico de Digitalizacoes"),
                        Item("subtitle", "Digitalizacoes VIN anteriores e resultados"),
                        Item("filter_all", "Todas as Digitalizacoes"),
                        Item("filter_valid", "Somente Validos"),
                        Item("filter_invalid", "Somente Invalidos"),
                        Item("filter_corrected", "Auto-corrigidos"),
                        Item("sort_newest", "Mais Recentes Primeiro"),
                        Item("sort_oldest", "Mais Antigos Primeiro"),
                        Item("sort_confidence", "Maior Confianca"),
                        Item("clear_history", "Limpar Historico"),
                        Item("confirm_clear", "Tem certeza de que deseja limpar o historico de digitalizacoes?"),
                        Item("history_cleared", "Historico de digitalizacoes limpo"),
                        Item("no_history", "Sem historico de digitalizacoes"),
                        Item("scanned_at", "Digitalizado em"),
                        Item("confidence_score", "Confianca: {{score}}%"),
                        Item("status_valid", "Valido"),
                        Item("status_invalid", "Invalido"),
                        Item("status_corrected", "Auto-corrigido"),
                        Item("view_details", "Ver Detalhes"),
                        Item("rescan", "Redigitalizar") >>],
           [name |-> "vin_integration",
            keys |-> << Item("title", "Integracao do Scanner VIN"),
                        Item("subtitle", "Como usar o scanner VIN no seu fluxo de trabalho"),
                        Item("step_1_title", "1. Abrir Scanner"),
                        Item("step_1_desc", "Clique no icone de codigo QR ao lado de qualquer campo de entrada VIN"),
                        Item("step_2_title", "2. Digitalizar VIN"),
                        Item("step_2_desc", "Posicione o adesivo VIN no quadro da camera ou carregue uma imagem"),
                        Item("step_3_title", "3. Auto-decodificar"),
                        Item("step_3_desc", "O VIN e automaticamente decodificado e as informacoes do veiculo sao preenchidas"),
                        Item("available_in", "Disponivel em:"),
                        Item("sales_orders", "Ordens de Venda"),
                        Item("service_orders", "Ordens de Servico"),
                        Item("recon_orders", "Ordens de Reconversao"),
                        Item("car_wash", "Ordens de Lavagem"),
                        Item("best_practices", "Melhores Praticas"),
                        Item("practice_lighting", "Use boa iluminacao para melhores resultados"),
                        Item("practice_steady", "Mantenha o dispositivo firme enquanto digitaliza"),
                        Item("practice_verify", "Sempre verifique as informacoes decodificadas") >>],
           [name |-> "vin_analyzer",
            keys |-> << Item("title", "Analise de VIN"),
                        Item("subtitle", "Decodificar e validar detalhes do VIN"),
                        Item("enter_vin", "Insira um VIN para ver a analise detalhada"),
                        Item("vin_input_label", "Numero de Identificacao do Veiculo (VIN)"),
                        Item("analyze_button", "Analisar VIN"),
                        Item("analyzing", "Analisando..."),
                        Item("status_valid", "VIN Valido"),
                        Item("status_invalid", "VIN Invalido"),
                        Item("check_digit_valid", "Digito de verificacao valido"),
                        Item("check_digit_invalid", "Digito de verificacao invalido"),
                        Item("manufacturer_info", "Informacoes do Fabricante"),
                        Item("wmi_label", "WMI (1-3):"),
                        Item("wmi_desc", "Identificador Mundial do Fabricante"),
                        Item("vds_label", "VDS (4-9):"),
                        Item("vds_desc", "Secao Descritora do Veiculo"),
                        Item("vis_label", "VIS (10-17):"),
                        Item("vis_desc", "Secao Identificadora do Veiculo"),
                        Item("decoded_info", "Informacoes Decodificadas"),
                        Item("no_data", "Nenhum dado decodificado disponivel") >>] >>

\* MISSING_KEYS[lang], every key in literal order
MISSING_KEYS_ALL(lang) ==
    IF lang = "en" THEN
        << Item("upload_image", "Upload Image"),
           Item("upload_image_desc", "Upload VIN sticker photo for analysis"),
           Item("quick_mode", "Quick Mode"),
           Item("quick_mode_desc", "Fast VIN scanning with automatic detection"),
           Item("analytics", "Analytics"),
           Item("analytics_desc", "View scan statistics and insights"),
           Item("advanced_scanner", "Advanced Scanner"),
           Item("ready_to_scan", "Ready to Scan"),
           Item("scanner_description", "Use camera or upload images to scan VIN codes with AI-powered recognition"),
           Item("manual_input_label", "Manual VIN Input"),
           Item("manual_input_placeholder", "Enter 17-character VIN or scan with camera"),
           Item("mobile_optimized", "Mobile Optimized"),
           Item("tablet_optimized", "Tablet Optimized"),
           Item("desktop_optimized", "Desktop Optimized"),
           Item("multi_engine", "Multi-Engine"),
           Item("ai_powered", "AI Powered"),
           Item("smart_scan_description", "Advanced scanner with automatic region detection and intelligent focus"),
           Item("scanner", "Scanner"),
           Item("smart_focus", "Smart Focus"),
           Item("smart", "Smart"),
           Item("scan", "Scan"),
           Item("hist", "Hist"),
           Item("history", "History"),
           Item("config", "Config"),
           Item("current_vin", "Current VIN"),
           Item("batch", "Batch"),
           Item("batch_processing", "Batch Processing"),
           Item("quick", "Quick"),
           Item("start_smart_scan", "Start Smart Scan") >>
    ELSE IF lang = "es" THEN
        << Item("upload_image", "Subir Imagen"),
           Item("upload_image_desc", "Subir foto de la calcomania VIN para analisis"),
           Item("quick_mode", "Modo Rapido"),
           Item("quick_mode_desc", "Escaneo VIN rapido con deteccion automatica"),
           Item("analytics", "Analiticas"),
           Item("analytics_desc", "Ver estadisticas e insights de escaneos"),
           Item("advanced_scanner", "Escaner Avanzado"),
           Item("ready_to_scan", "Listo para Escanear"),
           Item("scanner_description", "Use la camara o suba imagenes para escanear codigos VIN con reconocimiento con IA"),
           Item("manual_input_label", "Entrada Manual de VIN"),
           Item("manual_input_placeholder", "Ingrese VIN de 17 caracteres o escanee con camara"),
           Item("mobile_optimized", "Optimizado para Movil"),
           Item("tablet_optimized", "Optimizado para Tablet"),
           Item("desktop_optimized", "Optimizado para Escritorio"),
           Item("multi_engine", "Multi-Motor"),
           Item("ai_powered", "Con IA"),
           Item("smart_scan_description", "Escaner avanzado con deteccion automatica de region y enfoque inteligente"),
           Item("scanner", "Escaner"),
           Item("smart_focus", "Enfoque Inteligente"),
           Item("smart", "Inteligente"),
           Item("scan", "Escanear"),
           Item("hist", "Hist"),
           Item("history", "Historial"),
           Item("config", "Config"),
           Item("current_vin", "VIN Actual"),
           Item("batch", "Lote"),
           Item("batch_processing", "Procesamiento por Lotes"),
           Item("quick", "Rapido"),
           Item("start_smart_scan", "Iniciar Escaneo Inteligente") >>
    ELSE
        << Item("upload_image", "Carregar Imagem"),
           Item("upload_image_desc", "Carregar foto do adesivo VIN para analise"),
           Item("quick_mode", "Modo Rapido"),
           Item("quick_mode_desc", "Digitalizacao VIN rapida com deteccao automatica"),
           Item("analytics", "Analises"),
           Item("analytics_desc", "Ver estatisticas e insights de digitalizacoes"),
           Item("advanced_scanner", "Scanner Avancado"),
           Item("ready_to_scan", "Pronto para Digitalizar"),
           Item("scanner_description", "Use a camera ou carregue imagens para digitalizar codigos VIN com reconhecimento por IA"),
           Item("manual_input_label", "Entrada Manual de VIN"),
           Item("manual_input_placeholder", "Digite VIN de 17 caracteres ou digitalize com camera"),
           Item("mobile_optimized", "Otimizado para Celular"),
           Item("tablet_optimized", "Otimizado para Tablet"),
           Item("desktop_optimized", "Otimizado para Desktop"),
           Item("multi_engine", "Multi-Motor"),
           Item("ai_powered", "Com IA"),
           Item("smart_scan_description", "Scanner avancado com deteccao automatica de regiao e foco inteligente"),
           Item("scanner", "Scanner"),
           Item("smart_focus", "Foco Inteligente"),
           Item("smart", "Inteligente"),
           Item("scan", "Digitalizar"),
           Item("hist", "Hist"),
           Item("history", "Historico"),
           Item("config", "Config"),
           Item("current_vin", "VIN Atual"),
           Item("batch", "Lote"),
           Item("batch_processing", "Processamento em Lote"),
           Item("quick", "Rapido"),
           Item("start_smart_scan", "Iniciar Digitalizacao Inteligente") >>

\* add_translations_to_json with the whole of TRANSLATIONS[lang]
AddMergeAll(d, lang) == MergeSections(MergeStart(d), TRANSLATIONS_ALL(lang))

\* fix_translations with the whole of MISSING_KEYS[lang]
FixMergeAll(d, lang) ==
    CHOOSE r \in { IF st.raised THEN st ELSE [st EXCEPT !.data = SortHub(st.data)] :
                    st \in { MergeKeys(MergeStart(EnsureSection(d, HUB)), HUB,
                                       MISSING_KEYS_ALL(lang)) } } : TRUE

MergeAllOf(s, d, lang) == IF s = "add" THEN AddMergeAll(d, lang) ELSE FixMergeAll(d, lang)

\* the whole patch a script applies, as a sequence of sections
PatchAllOf(s, lang) ==
    IF s = "add" THEN TRANSLATIONS_ALL(lang)
    ELSE << [name |-> HUB, keys |-> MISSING_KEYS_ALL(lang)] >>

(***************************************************************************)
(* Files.  json.load accepts the text of a JSON document in any layout;    *)
(* json.dump(data, f, ensure_ascii=False, indent=2) writes one layout.     *)
(***************************************************************************)
MissingFile == [kind |-> "missing", fmt |-> "none", doc |-> << >>]

\* a file whose text is no JSON document
MalformedFile == [kind |-> "malformed", fmt |-> "none", doc |-> << >>]

\* what open(file_path, 'w') leaves: a file of zero bytes
EmptyFile == [kind |-> "empty", fmt |-> "none", doc |-> << >>]

\* a proper prefix of the text json.dump writes
PartialFile == [kind |-> "partial", fmt |-> "none", doc |-> << >>]

JsonFile(d, fmt) == [kind |-> "json", fmt |-> fmt, doc |-> d]

\* variant: a missing file is read as the empty document
LoadsOrDefault(f) == f.kind \in {"json", "missing"}

\* open(file_path, 'r') and json.load succeed
Loads(f) == f.kind = "json"

\* json.load(f)
Load(f) == f.doc

\* the complete text json.dump writes for data
Dumped(d) == JsonFile(d, "indent2")

\* variant: a locale whose call returned False is processed again
NextIndexStuck(i, ok) == IF ok THEN i + 1 ELSE i

\* variant: the loop is left at the first call that returns False
NextIndexAbort(i, ok) == IF ok THEN i + 1 ELSE Len(Locales) + 1

\* variant: after a call that returned False the next locale is skipped
NextIndexSkip(i, ok) == IF ok THEN i + 1 ELSE i + 2

\* The for loop of main goes on to the next locale whatever the call returned.
NextIndex(i, ok) == i + 1

\* variant: return 0 as soon as one locale succeeded
ExitCodeAny(sc) == IF sc > 0 THEN 0 ELSE 1

\* return 0 if success_count == 3 else 1
ExitCode(sc) == IF sc = 3 THEN 0 ELSE 1

(***************************************************************************)
(* Starting documents.                                                     *)
(***************************************************************************)
SectionUniverse == {"common", HUB, "quick_scan"}

\* keys a section of a starting document may hold: keys of either patch and
\* keys no patch mentions ("legacy", "save")
KeyUniverse(s) ==
    IF s = HUB THEN {"title", "upload_image", "legacy"}
    ELSE IF s = "quick_scan" THEN {"title"}
    ELSE {"save"}

\* the values the patches of en and es give to s.k
PatchValues(s, k) ==
    UNION { UNION { { sec.keys[j].v : j \in { j \in DOMAIN sec.keys : sec.keys[j].k = k } }
                    : sec \in { PatchOf(sc, lang)[i] :
                                i \in { i \in DOMAIN PatchOf(sc, lang) :
                                        PatchOf(sc, lang)[i].name = s } } }
            : sc \in Scripts, lang \in {"en", "es"} }

ValueUniverse(s, k) ==
    IF PatchValues(s, k) = {} THEN {"Old text"} ELSE PatchValues(s, k)

\* mappings with at most n distinct keys of section s, in every key order
RECURSIVE ItemSeqs(_, _)
ItemSeqs(s, n) ==
    IF n = 0 THEN { << >> }
    ELSE LET shorter == ItemSeqs(s, n - 1)
         IN  shorter \cup
             UNION { UNION { { Append(q, Item(k, v)) : v \in ValueUniverse(s, k) }
                             : k \in { k \in KeyUniverse(s) : ~HasKey(q, k) } }
                     : q \in { q \in shorter : Len(q) = n - 1 } }

\* values of section s: a mapping of at most n keys, or a JSON string
SectionValues(s, n) ==
    { [name |-> s, type |-> "dict", items |-> q] : q \in ItemSeqs(s, n) }
    \cup { [name |-> s, type |-> "str", items |-> << >>] }

\* documents over the section names S, in every section order, holding at
\* most n keys in all
RECURSIVE DocsOver(_, _)
DocsOver(S, n) ==
    { << >> } \cup
    UNION { UNION { { << sec >> \o d : d \in DocsOver(S \ {s}, n - Len(sec.items)) }
                    : sec \in SectionValues(s, n) }
            : s \in S }

RichDocs == DocsOver(SectionUniverse, MaxEntries)

\* five starting documents: {}, a document with a section and keys the
\* patches do not mention, one whose vin_scanner_hub is a string, one whose
\* quick_scan is a list behind a vin_scanner_hub mapping, and one whose
\* vin_scanner_hub is null
StartDocs ==
    { << >>,
      << [name |-> "common", type |-> "dict", items |-> << Item("save", "Old text") >>],
         [name |-> HUB, type |-> "dict",
          items |-> << Item("title", "VIN Scanner"), Item("legacy", "Old text") >>] >>,
      << [name |-> HUB, type |-> "str", items |-> << >>] >>,
      << [name |-> HUB, type |-> "dict", items |-> << Item("legacy", "Old text") >>],
         [name |-> "quick_scan", type |-> "list", items |-> << >>] >>,
      << [name |-> HUB, type |-> "null", items |-> << >>] >> }

StartFiles ==
    { MissingFile, MalformedFile } \cup { JsonFile(d, "hand") : d \in StartDocs }

(***************************************************************************)
(* State machine.                                                          *)
(***************************************************************************)
NoReport == [added |-> 0, updated |-> 0, added_log |-> {}]

\* test-modal-simple.py is not running
ModalIdle == [pc |-> "idle"]

\* main up to the for loop
MainStart ==
    /\ pc = "loop"
    /\ idx = 1
    /\ data = << >>
    /\ added_keys = 0
    /\ updated_keys = 0
    /\ added_log = {}
    /\ success_count = 0
    /\ exit_code = -1
    /\ result = [l \in LocaleSet |-> "none"]
    /\ report = [l \in LocaleSet |-> NoReport]
    /\ wfail = [l \in LocaleSet |-> FALSE]

\* first run of a script over any three files
Init ==
    /\ disk \in [LocaleSet -> StartFiles]
    /\ disk0 = disk
    /\ script \in Scripts
    /\ run = 1
    /\ prev_script = "none"
    /\ prev_result = [l \in LocaleSet |-> "none"]
    /\ files = Locales
    /\ modal = ModalIdle
    /\ MainStart

\* first run of a script over three files holding one generated document
InitMerge ==
    /\ \E d \in RichDocs : disk = [l \in LocaleSet |-> JsonFile(d, "hand")]
    /\ disk0 = disk
    /\ script \in Scripts
    /\ run = 1
    /\ prev_script = "none"
    /\ prev_result = [l \in LocaleSet |-> "none"]
    /\ files = Locales
    /\ modal = ModalIdle
    /\ MainStart

\* every order in which a files dict can list the three locales
FileOrders ==
    { o \in [DOMAIN Locales -> LocaleSet] : \A i, j \in DOMAIN Locales : o[i] = o[j] => i = j }

\* first run of a script over any three files, the locales in any order
InitOrder ==
    /\ disk \in [LocaleSet -> StartFiles]
    /\ disk0 = disk
    /\ script \in Scripts
    /\ run = 1
    /\ prev_script = "none"
    /\ prev_result = [l \in LocaleSet |-> "none"]
    /\ files \in FileOrders
    /\ modal = ModalIdle
    /\ MainStart

InLoop == pc = "loop" /\ idx \in DOMAIN Locales

lang == files[idx]

\* variant: a failure restores the files of the locales written before
OnFailureRollback(dk) ==
    [l \in LocaleSet |-> IF result[l] = "True" THEN disk0[l] ELSE dk[l]]

\* except Exception as e: print, return False.  The files stay as they are
\* at that point, those of the locales processed before included.
OnFailure(dk) == dk

\* the call returns ok: main counts it and the loop moves on
Return(ok) ==
    /\ result' = [result EXCEPT ![lang] = IF ok THEN "True" ELSE "False"]
    /\ success_count' = IF ok THEN success_count + 1 ELSE success_count
    /\ idx' = NextIndex(idx, ok)
    /\ pc' = "loop"
    /\ data' = << >>
    /\ added_keys' = 0
    /\ updated_keys' = 0
    /\ added_log' = {}
    /\ UNCHANGED <<disk0, script, run, prev_script, prev_result, exit_code,
                   files, modal>>

\* open(file_path, 'r') raises FileNotFoundError or json.load raises
\* JSONDecodeError; the except clause returns False
LoadFails ==
    /\ InLoop
    /\ ~Loads(disk[lang])
    /\ Return(FALSE)
    /\ disk' = OnFailure(disk)
    /\ UNCHANGED <<report, wfail>>

\* the merge loop raises TypeError; the except clause returns False
MergeRaises ==
    /\ InLoop
    /\ Loads(disk[lang])
    /\ MergeOf(script, Load(disk[lang]), lang).raised
    /\ Return(FALSE)
    /\ disk' = OnFailure(disk)
    /\ UNCHANGED <<report, wfail>>

\* load and merge in memory, up to the open for writing
MergeOk ==
    /\ InLoop
    /\ Loads(disk[lang])
    /\ \E st \in { MergeOf(script, Load(disk[lang]), lang) } :
           /\ ~st.raised
           /\ data' = st.data
           /\ added_keys' = st.added_keys
           /\ updated_keys' = st.updated_keys
           /\ added_log' = st.added_log
    /\ pc' = "merged"
    /\ UNCHANGED <<disk, disk0, script, run, prev_script, prev_result, idx,
                   success_count, exit_code, result, report, wfail, files, modal>>

\* open(file_path, 'w') raises OSError: the file is as it was
OpenWriteFails ==
    /\ pc = "merged"
    /\ wfail' = [wfail EXCEPT ![lang] = TRUE]
    /\ Return(FALSE)
    /\ disk' = OnFailure(disk)
    /\ UNCHANGED report

\* open(file_path, 'w') truncates the file
OpenWrite ==
    /\ pc = "merged"
    /\ disk' = [disk EXCEPT ![lang] = EmptyFile]
    /\ pc' = "opened"
    /\ UNCHANGED <<disk0, script, run, prev_script, prev_result, idx, data,
                   added_keys, updated_keys, added_log, success_count, exit_code,
                   result, report, wfail, files, modal>>

\* json.dump (or the close that flushes it) raises OSError after writing
\* none or some of the text
DumpFails ==
    /\ pc = "opened"
    /\ \E f \in {EmptyFile, PartialFile} :
          disk' = OnFailure([disk EXCEPT ![lang] = f])
    /\ wfail' = [wfail EXCEPT ![lang] = TRUE]
    /\ Return(FALSE)
    /\ UNCHANGED report

\* json.dump writes the whole text, the counts are printed, return True
Dump ==
    /\ pc = "opened"
    /\ disk' = [disk EXCEPT ![lang] = Dumped(data)]
    /\ report' = [report EXCEPT ![lang] =
                    [added |-> added_keys, updated |-> updated_keys,
                     added_log |-> added_log]]
    /\ Return(TRUE)
    /\ UNCHANGED wfail

\* after the loop: the summary and main's return value
Finish ==
    /\ pc = "loop"
    /\ idx \notin DOMAIN Locales
    /\ exit_code' = ExitCode(success_count)
    /\ pc' = "done"
    /\ UNCHANGED <<disk, disk0, script, run, prev_script, prev_result, idx, data,
                   added_keys, updated_keys, added_log, success_count, result,
                   report, wfail, files, modal>>

\* one of the scripts is started again over the files as they are
Rerun ==
    /\ pc = "done"
    /\ run < MaxRuns
    /\ run' = run + 1
    /\ script' \in Scripts
    /\ prev_script' = script
    /\ prev_result' = result
    /\ disk0' = disk
    /\ pc' = "loop"
    /\ idx' = 1
    /\ exit_code' = -1
    /\ success_count' = 0
    /\ result' = [l \in LocaleSet |-> "none"]
    /\ report' = [l \in LocaleSet |-> NoReport]
    /\ wfail' = [l \in LocaleSet |-> FALSE]
    /\ UNCHANGED <<disk, data, added_keys, updated_keys, added_log, files, modal>>

Next ==
    \/ LoadFails
    \/ MergeRaises
    \/ MergeOk
    \/ OpenWriteFails
    \/ OpenWrite
    \/ DumpFails
    \/ Dump
    \/ Finish

Spec == Init /\ [][Next]_vars

\* the same runs of a process that keeps executing: every statement and
\* library call of the scripts returns or raises, none blocks
SpecLive == Init /\ [][Next]_vars /\ WF_vars(Next)

\* the same runs with the locales listed in any order
SpecOrder == InitOrder /\ [][Next]_vars

\* runs in which every write goes through, repeated
NextMerge ==
    \/ MergeRaises
    \/ MergeOk
    \/ OpenWrite
    \/ Dump
    \/ Finish
    \/ Rerun

SpecMerge == InitMerge /\ [][NextMerge]_vars

(***************************************************************************)
(* Vocabulary of the properties: documents and patches as sets of entries. *)
(***************************************************************************)
\* the document the current run found in the file of locale l
StartDoc(l) == disk0[l].doc

\* the document now in the file of locale l
EndDoc(l) == disk[l].doc

\* the call for locale l returned True in the current run
Succeeded(l) == result[l] = "True" /\ disk[l].kind = "json" /\ disk0[l].kind = "json"

\* <<section, key, value>> of every key of a patch
PatchTriples(patch) ==
    UNION { { <<patch[i].name, patch[i].keys[j].k, patch[i].keys[j].v>>
              : j \in DOMAIN patch[i].keys } : i \in DOMAIN patch }

PatchPairs(patch) == { <<t[1], t[2]>> : t \in PatchTriples(patch) }

PatchSectionNames(patch) == { patch[i].name : i \in DOMAIN patch }

\* <<section, key, value>> of every key of the mappings of a document
DocTriples(d) ==
    UNION { { <<d[i].name, d[i].items[j].k, d[i].items[j].v>>
              : j \in DOMAIN d[i].items } : i \in DOMAIN d }

DocPairs(d) == { <<t[1], t[2]>> : t \in DocTriples(d) }

DocSectionNames(d) == { d[i].name : i \in DOMAIN d }

\* a document as an unordered mapping of sections to unordered mappings
AsMapping(d) ==
    { <<d[i].name, d[i].type,
        { <<d[i].items[j].k, d[i].items[j].v>> : j \in DOMAIN d[i].items }>>
      : i \in DOMAIN d }

\* no section name and no key of a section occurs twice
WellFormed(d) ==
    /\ \A i, j \in DOMAIN d : d[i].name = d[j].name => i = j
    /\ \A i \in DOMAIN d : \A m, n \in DOMAIN d[i].items :
          d[i].items[m].k = d[i].items[n].k => m = n

(***************************************************************************)
(* C1: superset merge.  After add_translations_to_json succeeds, every     *)
(* section of the starting document that the patch does not mention is     *)
(* present with exactly its original content, every key the patch does not *)
(* list inside a mentioned section is present with its original value, and *)
(* no section or key of the starting document is missing from the result.  *)
(***************************************************************************)
C1_SupersetMerge ==
    \A l \in LocaleSet :
        (script = "add" /\ Succeeded(l)) =>
            LET d0 == StartDoc(l)
                d1 == EndDoc(l)
                patch == TRANSLATIONS(l)
            IN  \A i \in DOMAIN d0 :
                    IF d0[i].name \notin PatchSectionNames(patch)
                    THEN \E j \in DOMAIN d1 : d1[j] = d0[i]
                    ELSE \E j \in DOMAIN d1 :
                            /\ d1[j].name = d0[i].name
                            /\ \A m \in DOMAIN d0[i].items :
                                 LET it == d0[i].items[m]
                                 IN  /\ \E n \in DOMAIN d1[j].items : d1[j].items[n].k = it.k
                                     /\ <<d0[i].name, it.k>> \notin PatchPairs(patch)
                                          => \E n \in DOMAIN d1[j].items : d1[j].items[n] = it

\* add succeeded on a document holding an unmentioned section with a key and
\* an unmentioned key next to a patched key inside vin_scanner_hub
C1_Witness ==
    \E l \in LocaleSet :
        /\ script = "add" /\ Succeeded(l)
        /\ <<"common", "save">> \in DocPairs(StartDoc(l))
        /\ <<HUB, "legacy">> \in DocPairs(StartDoc(l))
        /\ EndDoc(l) # StartDoc(l)

(***************************************************************************)
(* C2: patch wins and counting rule.  After a successful merge every       *)
(* (section, key) of the patch holds the patch's value; added is the       *)
(* number of patch keys absent from the starting document, updated the     *)
(* number of patch keys present with a different value; keys present with  *)
(* the same value count in neither.                                        *)
(***************************************************************************)
C2_PatchWinsAndCounts ==
    \A l \in LocaleSet :
        Succeeded(l) =>
            LET d0 == StartDoc(l)
                d1 == EndDoc(l)
                patch == PatchOf(script, l)
            IN  /\ PatchTriples(patch) \subseteq DocTriples(d1)
                /\ WellFormed(d1)
                /\ report[l].added =
                     Cardinality({ t \in PatchTriples(patch) : <<t[1], t[2]>> \notin DocPairs(d0) })
                /\ report[l].updated =
                     Cardinality({ t \in PatchTriples(patch) :
                                     /\ <<t[1], t[2]>> \in DocPairs(d0)
                                     /\ t \notin DocTriples(d0) })

\* the scenario {a:{x:1}} + {a:{x:2,y:3}, b:{z:4}}: vin_scanner_hub holds only
\* title with another value; add reports added = 2, updated = 1
C2_Witness ==
    \E l \in LocaleSet :
        /\ script = "add" /\ Succeeded(l)
        /\ DocPairs(StartDoc(l)) = { <<HUB, "title">> }
        /\ report[l].added = 2
        /\ report[l].updated = 1

(***************************************************************************)
(* C3: idempotence.  When a script runs again on the file its previous run *)
(* wrote, the file it writes is the same and it reports added = 0 and      *)
(* updated = 0.                                                            *)
(***************************************************************************)
C3_Idempotent ==
    \A l \in LocaleSet :
        (prev_script = script /\ prev_result[l] = "True" /\ result[l] = "True") =>
            /\ disk[l] = disk0[l]
            /\ report[l].added = 0
            /\ report[l].updated = 0

\* the second run of the same script succeeded on a file the first run changed
C3_Witness ==
    \E l \in LocaleSet :
        /\ run = 2 /\ prev_script = script
        /\ prev_result[l] = "True" /\ result[l] = "True"
        /\ Cardinality(DocTriples(EndDoc(l))) >= 3

(***************************************************************************)
(* C4: atomic write.  When the write of a locale fails, the file on disk   *)
(* is either the complete prior version or the complete new document,      *)
(* never an empty or half-written file.                                    *)
(***************************************************************************)
C4_AtomicWrite ==
    \A l \in LocaleSet :
        wfail[l] =>
            \/ disk[l] = disk0[l]
            \/ /\ disk0[l].kind = "json"
               /\ disk[l] = Dumped(MergeOf(script, StartDoc(l), l).data)

(***************************************************************************)
(* C5: failure isolation.  When main has returned, every locale whose own  *)
(* file loads, whose merge does not raise and whose write does not fail    *)
(* has been loaded, patched and saved, with the document and the counts of *)
(* a run in which nothing fails, whatever happened to the other locales    *)
(* and wherever they sit in the processing order.                          *)
(***************************************************************************)
C5_FailureIsolation ==
    pc = "done" =>
        \A l \in LocaleSet :
            /\ result[l] # "none"
            /\ (disk0[l].kind = "json" /\ ~wfail[l]
                  /\ ~MergeOf(script, StartDoc(l), l).raised) =>
                  LET st == MergeOf(script, StartDoc(l), l)
                  IN  /\ result[l] = "True"
                      /\ disk[l] = Dumped(st.data)
                      /\ report[l].added = st.added_keys
                      /\ report[l].updated = st.updated_keys

\* main returned after the first locale failed to load, the second locale's
\* write failed and the third was saved with its patch
C5_Witness ==
    /\ pc = "done"
    /\ disk0["en"].kind = "malformed" /\ result["en"] = "False"
    /\ wfail["es"] /\ result["es"] = "False"
    /\ result["pt-BR"] = "True"
    /\ PatchTriples(PatchOf(script, "pt-BR")) \subseteq DocTriples(EndDoc("pt-BR"))

(***************************************************************************)
(* C6: exit status.  main returns 0 exactly when each of en, es and pt-BR  *)
(* was processed successfully, and 1 in every other case.                  *)
(***************************************************************************)
C6_ExitStatus ==
    pc = "done" =>
        /\ exit_code \in {0, 1}
        /\ exit_code = 0 <=> \A l \in LocaleSet : Succeeded(l)

\* main returned non-zero although two of the three locales succeeded
C6_Witness ==
    /\ pc = "done"
    /\ exit_code = 1
    /\ Cardinality({ l \in LocaleSet : Succeeded(l) }) = 2

(***************************************************************************)
(* C7: load failure leaves the state unchanged.  For a locale whose file   *)
(* is missing or is no valid JSON, the call returns False, never reaches   *)
(* the write, and the path on disk stays exactly as it was: a missing file *)
(* is not created, a malformed file keeps its bytes.                       *)
(***************************************************************************)
C7_LoadFailureUnchanged ==
    \A i \in DOMAIN files :
        LET l == files[i]
        IN  disk0[l].kind \in {"missing", "malformed"} =>
                /\ disk[l] = disk0[l]
                /\ ~wfail[l]
                /\ result[l] \in {"none", "False"}
                /\ (pc \in {"merged", "opened"} => idx # i)
                /\ (idx > i \/ pc = "done") => result[l] = "False"

\* a missing file and a malformed file have both been reported as failed,
\* and another locale was saved in the same run
C7_Witness ==
    \E a, b, c \in LocaleSet :
        /\ disk0[a].kind = "missing" /\ result[a] = "False" /\ disk[a].kind = "missing"
        /\ disk0[b].kind = "malformed" /\ result[b] = "False"
        /\ result[c] = "True"

(***************************************************************************)
(* C8: additivity count.  When the starting document shares no             *)
(* (section, key) pair with the patch, a successful merge reports added    *)
(* equal to the number of keys of the patch and updated = 0.               *)
(***************************************************************************)
C8_AdditivityCount ==
    \A l \in LocaleSet :
        (Succeeded(l) /\ DocPairs(StartDoc(l)) \cap PatchPairs(PatchOf(script, l)) = {}) =>
            /\ report[l].added = Cardinality(PatchPairs(PatchOf(script, l)))
            /\ report[l].updated = 0

\* add succeeded on a document that holds vin_scanner_hub, with a key the
\* patch does not list, and reported all three patch keys as added
C8_Witness ==
    \E l \in LocaleSet :
        /\ script = "add" /\ Succeeded(l)
        /\ DocPairs(StartDoc(l)) = { <<HUB, "legacy">>, <<"common", "save">> }
        /\ report[l].added = 3

(***************************************************************************)
(* C9: no-op on exact match.  When every key of the patch is in the        *)
(* starting document with the patch's value, a successful merge reports    *)
(* added = 0 and updated = 0 and the resulting document has the sections,  *)
(* keys and values of the starting document.                               *)
(***************************************************************************)
C9_NoOpOnExactMatch ==
    \A l \in LocaleSet :
        (Succeeded(l) /\ PatchTriples(PatchOf(script, l)) \subseteq DocTriples(StartDoc(l))) =>
            /\ report[l].added = 0
            /\ report[l].updated = 0
            /\ AsMapping(EndDoc(l)) = AsMapping(StartDoc(l))

\* add succeeded on a document that already held its three keys with the
\* patch's values, next to keys of the other script
C9_Witness ==
    \E l \in LocaleSet :
        /\ script = "add" /\ Succeeded(l)
        /\ PatchTriples(TRANSLATIONS(l)) \subseteq DocTriples(StartDoc(l))
        /\ <<HUB, "upload_image">> \in DocPairs(StartDoc(l))

(***************************************************************************)
(* C10: missing section creation.  After a successful merge every section  *)
(* of the patch that the starting document lacks exists as a mapping that  *)
(* holds exactly the patch's keys for it, with the patch's values, each of *)
(* them reported as added.                                                 *)
(***************************************************************************)
C10_MissingSectionCreated ==
    \A l \in LocaleSet :
        Succeeded(l) =>
            LET patch == PatchOf(script, l)
                d1 == EndDoc(l)
            IN  \A i \in DOMAIN patch :
                    patch[i].name \notin DocSectionNames(StartDoc(l)) =>
                        /\ \E j \in DOMAIN d1 :
                              /\ d1[j].name = patch[i].name
                              /\ d1[j].type = "dict"
                              /\ { d1[j].items[n] : n \in DOMAIN d1[j].items }
                                   = { patch[i].keys[n] : n \in DOMAIN patch[i].keys }
                              /\ Len(d1[j].items) = Len(patch[i].keys)
                        /\ \A n \in DOMAIN patch[i].keys :
                              <<patch[i].name, patch[i].keys[n].k>> \in report[l].added_log

\* add succeeded on a document that had quick_scan but no vin_scanner_hub
C10_Witness ==
    \E l \in LocaleSet :
        /\ script = "add" /\ Succeeded(l)
        /\ DocSectionNames(StartDoc(l)) = { "quick_scan", "common" }
        /\ HUB \in DocSectionNames(EndDoc(l))
        /\ report[l].added = 2

\* the section names of a document, in order
NameSeq(d) == [i \in DOMAIN d |-> d[i].name]

\* the keys of a mapping, in order
KeySeq(items) == [i \in DOMAIN items |-> items[i].k]

\* a is an initial segment of b
IsPrefix(a, b) == Len(a) <= Len(b) /\ \A i \in DOMAIN a : a[i] = b[i]

(***************************************************************************)
(* C11: stable ordering in add_translations_to_json.  The saved document   *)
(* lists the sections of the starting document first, in their original    *)
(* order, then the new ones; each mapping lists its original keys first,   *)
(* in their original order, then the new ones; a re-run on its own output  *)
(* writes the identical sequence of sections and keys.                     *)
(***************************************************************************)
C11_StableOrder ==
    \A l \in LocaleSet :
        (script = "add" /\ Succeeded(l)) =>
            LET d0 == StartDoc(l)
                d1 == EndDoc(l)
            IN  /\ IsPrefix(NameSeq(d0), NameSeq(d1))
                /\ \A i \in DOMAIN d0 : IsPrefix(KeySeq(d0[i].items), KeySeq(d1[i].items))
                /\ (prev_script = "add" /\ prev_result[l] = "True") =>
                      /\ NameSeq(d1) = NameSeq(d0)
                      /\ \A i \in DOMAIN d0 : KeySeq(d1[i].items) = KeySeq(d0[i].items)

\* add succeeded on a document whose vin_scanner_hub, placed before another
\* section, held title (with another value) before legacy, and appended keys
C11_Witness ==
    \E l \in LocaleSet :
        /\ script = "add" /\ Succeeded(l)
        /\ Len(StartDoc(l)) = 2
        /\ StartDoc(l)[1].name = HUB
        /\ KeySeq(StartDoc(l)[1].items) = << "title", "legacy" >>
        /\ StartDoc(l)[1].items[1].v # EndDoc(l)[1].items[1].v
        /\ KeySeq(EndDoc(l)[1].items) = << "title", "legacy", "subtitle" >>
        /\ Len(EndDoc(l)) = 3

(***************************************************************************)
(* C12: locale order independence.  When main has returned, the content of *)
(* each locale file is determined by that file's starting content, the     *)
(* script and whether that locale's own write failed, and the exit status  *)
(* by these outcomes; neither depends on the order in which the locales    *)
(* were processed, so every permutation ends in the same files and status. *)
(***************************************************************************)
C12_OrderIndependent ==
    pc = "done" =>
        LET merges(l) == disk0[l].kind = "json" /\ ~MergeOf(script, StartDoc(l), l).raised
            ok(l) == merges(l) /\ ~wfail[l]
        IN  /\ \A l \in LocaleSet :
                IF ok(l) THEN disk[l] = Dumped(MergeOf(script, StartDoc(l), l).data)
                ELSE IF merges(l) THEN disk[l] \in {disk0[l], EmptyFile, PartialFile}
                ELSE disk[l] = disk0[l]
            /\ exit_code = IF \A l \in LocaleSet : ok(l) THEN 0 ELSE 1

\* main returned after processing pt-BR first and en last, with one locale
\* failing and the two others saved
C12_Witness ==
    /\ pc = "done"
    /\ files = << "pt-BR", "es", "en" >>
    /\ result["pt-BR"] = "True" /\ result["es"] = "False" /\ result["en"] = "True"
    /\ disk["en"] # disk0["en"]

\* the patch names a section that the document holds with a value that is
\* no mapping
SchemaViolation(d, patch) ==
    \E i \in DOMAIN d : d[i].name \in PatchSectionNames(patch) /\ d[i].type # "dict"

(***************************************************************************)
(* C13: section schema violation.  When the patch names a section whose    *)
(* value in the document is a string, number, boolean, null or list, the   *)
(* call for that locale returns False, the write is never reached and the  *)
(* file on disk stays exactly as it was: the value is not replaced and no  *)
(* partly merged document is written.                                      *)
(***************************************************************************)
C13_SchemaViolationFails ==
    \A i \in DOMAIN files :
        LET l == files[i]
        IN  (disk0[l].kind = "json" /\ SchemaViolation(StartDoc(l), PatchOf(script, l))) =>
                /\ disk[l] = disk0[l]
                /\ ~wfail[l]
                /\ result[l] \in {"none", "False"}
                /\ (pc \in {"merged", "opened"} => idx # i)
                /\ (idx > i \/ pc = "done") => result[l] = "False"

\* add returned False for a document whose quick_scan is a list and whose
\* vin_scanner_hub, merged in memory before the failure, is unchanged on disk;
\* another locale was saved in the same run
C13_Witness ==
    \E a, b \in LocaleSet :
        /\ script = "add"
        /\ disk0[a].kind = "json"
        /\ \E i \in DOMAIN StartDoc(a) :
              StartDoc(a)[i].name = "quick_scan" /\ StartDoc(a)[i].type = "list"
        /\ HUB \in DocSectionNames(StartDoc(a))
        /\ result[a] = "False"
        /\ disk[a] = disk0[a]
        /\ result[b] = "True"

(***************************************************************************)
(* C14: patch composition across the two scripts.  When one script has     *)
(* succeeded on a locale file and the other script then succeeds on it,    *)
(* every key of the later patch, the keys of both patches included, holds  *)
(* the later patch's value, and every key that only the earlier patch      *)
(* lists holds the earlier patch's value.                                  *)
(***************************************************************************)
C14_LaterPatchWins ==
    \A l \in LocaleSet :
        (prev_script \in Scripts /\ prev_script # script
            /\ prev_result[l] = "True" /\ Succeeded(l)) =>
            LET later == PatchOf(script, l)
                earlier == PatchOf(prev_script, l)
            IN  /\ PatchTriples(later) \subseteq DocTriples(EndDoc(l))
                /\ \A t \in PatchTriples(earlier) :
                      <<t[1], t[2]>> \notin PatchPairs(later) => t \in DocTriples(EndDoc(l))

\* fix succeeded after add on the same file: the keys of both patches are
\* in vin_scanner_hub with their patch's values
C14_Witness ==
    \E l \in LocaleSet :
        /\ prev_script = "add" /\ script = "fix"
        /\ prev_result[l] = "True" /\ Succeeded(l)
        /\ PatchTriples(TRANSLATIONS(l)) \subseteq DocTriples(EndDoc(l))
        /\ PatchTriples(PatchOf("fix", l)) \subseteq DocTriples(EndDoc(l))
        /\ <<HUB, "legacy">> \in DocPairs(EndDoc(l))

(***************************************************************************)
(* C15: frame of fix_translations.  A successful call changes only the     *)
(* vin_scanner_hub section: every other top-level section keeps its        *)
(* content, its key order and its position among the sections.             *)
(***************************************************************************)
C15_FixFrame ==
    \A l \in LocaleSet :
        (script = "fix" /\ Succeeded(l)) =>
            LET d0 == StartDoc(l)
                d1 == EndDoc(l)
            IN  /\ Len(d1) = IF HUB \in DocSectionNames(d0) THEN Len(d0) ELSE Len(d0) + 1
                /\ \A i \in DOMAIN d0 :
                      IF d0[i].name = HUB THEN d1[i].name = HUB ELSE d1[i] = d0[i]

\* fix succeeded on a document with vin_scanner_hub between two other
\* sections that hold keys
C15_Witness ==
    \E l \in LocaleSet :
        /\ script = "fix" /\ Succeeded(l)
        /\ Len(StartDoc(l)) = 3
        /\ StartDoc(l)[2].name = HUB
        /\ StartDoc(l)[1].items # << >>
        /\ StartDoc(l)[3].items # << >>
        /\ EndDoc(l) # StartDoc(l)

(***************************************************************************)
(* C16: sorted section in fix_translations.  After a successful call the   *)
(* keys of vin_scanner_hub, those the patch does not mention included, are *)
(* in ascending lexicographic order; the section holds the patch's keys    *)
(* with the patch's values and every other key it had with its old value,  *)
(* and nothing else.                                                       *)
(***************************************************************************)
C16_FixSortsHub ==
    \A l \in LocaleSet :
        (script = "fix" /\ Succeeded(l)) =>
            LET d1 == EndDoc(l)
                hub == d1[CHOOSE i \in DOMAIN d1 : d1[i].name = HUB].items
                patch == PatchOf("fix", l)
                old == { t \in DocTriples(StartDoc(l)) : t[1] = HUB }
            IN  /\ \A m, n \in DOMAIN hub : m < n => KeyRank(hub[m].k) < KeyRank(hub[n].k)
                /\ { <<HUB, hub[n].k, hub[n].v>> : n \in DOMAIN hub }
                     = PatchTriples(patch)
                       \cup { t \in old : <<t[1], t[2]>> \notin PatchPairs(patch) }

\* fix succeeded on a vin_scanner_hub that held title before legacy, both
\* not in its patch and out of order
C16_Witness ==
    \E l \in LocaleSet :
        /\ script = "fix" /\ Succeeded(l)
        /\ \E i \in DOMAIN StartDoc(l) :
              /\ StartDoc(l)[i].name = HUB
              /\ KeySeq(StartDoc(l)[i].items) = << "title", "legacy" >>
              /\ KeySeq(EndDoc(l)[i].items)
                   = << "legacy", "title", "upload_image", "upload_image_desc" >>

\* the numbers main prints after three successes
\* add-vin-translations: "5 sections added per language"
ANNOUNCED_SECTIONS == 5
\* add-vin-translations: "102 total keys per language"
ANNOUNCED_KEYS == 102
\* fix-vin-scanner-translations: "28 missing keys added per language"
ANNOUNCED_MISSING_KEYS == 28

\* generated documents all of whose sections are mappings
SizeDocs == { d \in RichDocs : \A i \in DOMAIN d : d[i].type = "dict" }

\* one run of a script with its whole patch over three files holding one
\* generated document
InitSizes ==
    /\ \E d \in SizeDocs : disk = [l \in LocaleSet |-> JsonFile(d, "hand")]
    /\ disk0 = disk
    /\ script \in Scripts
    /\ run = 1
    /\ prev_script = "none"
    /\ prev_result = [l \in LocaleSet |-> "none"]
    /\ files = Locales
    /\ modal = ModalIdle
    /\ MainStart

\* load and merge the whole patch in memory, up to the open for writing
MergeOkAll ==
    /\ InLoop
    /\ Loads(disk[lang])
    /\ \E st \in { MergeAllOf(script, Load(disk[lang]), lang) } :
           /\ ~st.raised
           /\ data' = st.data
           /\ added_keys' = st.added_keys
           /\ updated_keys' = st.updated_keys
           /\ added_log' = st.added_log
    /\ pc' = "merged"
    /\ UNCHANGED <<disk, disk0, script, run, prev_script, prev_result, idx,
                   success_count, exit_code, result, report, wfail, files, modal>>

NextSizes ==
    \/ MergeOkAll
    \/ OpenWrite
    \/ Dump
    \/ Finish

SpecSizes == InitSizes /\ [][NextSizes]_vars

(***************************************************************************)
(* C17: announced patch sizes.  For every locale, when a run of a script   *)
(* succeeds on a document holding none of the patch's keys, the number of  *)
(* keys it reports as added is the number main announces (102 for          *)
(* add-vin-translations, 28 for fix-vin-scanner-translations), which is    *)
(* the number of keys of the patch, and the patch of add-vin-translations  *)
(* has the 5 sections main announces.                                      *)
(***************************************************************************)
C17_AnnouncedSizes ==
    \A l \in LocaleSet :
        /\ Succeeded(l)
        /\ DocPairs(StartDoc(l)) \cap PatchPairs(PatchAllOf(script, l)) = {}
        => /\ script = "add" =>
                /\ Cardinality(PatchSectionNames(TRANSLATIONS_ALL(l))) = ANNOUNCED_SECTIONS
                /\ Cardinality(PatchPairs(TRANSLATIONS_ALL(l))) = ANNOUNCED_KEYS
                /\ report[l].added = ANNOUNCED_KEYS
           /\ script = "fix" =>
                /\ Cardinality(PatchPairs(PatchAllOf("fix", l))) = ANNOUNCED_MISSING_KEYS
                /\ report[l].added = ANNOUNCED_MISSING_KEYS

\* what the shipped patches give: 111 and 29 keys added
C17_ShippedSizes ==
    \A l \in LocaleSet :
        /\ Succeeded(l)
        /\ DocPairs(StartDoc(l)) \cap PatchPairs(PatchAllOf(script, l)) = {}
        => /\ script = "add" =>
                /\ Cardinality(PatchSectionNames(TRANSLATIONS_ALL(l))) = ANNOUNCED_SECTIONS
                /\ report[l].added = Cardinality(PatchPairs(TRANSLATIONS_ALL(l)))
                /\ report[l].added = ANNOUNCED_KEYS + 9
           /\ script = "fix" =>
                /\ report[l].added = Cardinality(PatchPairs(PatchAllOf("fix", l)))
                /\ report[l].added = ANNOUNCED_MISSING_KEYS + 1

(***************************************************************************)
(* test-modal-simple.py: the lookup of the Administration link.  The state *)
(* of the script is the record modal: pc, the loop position i, the local   *)
(* admin_found, the page (what each selector meets), and the calls made so *)
(* far: tried (selectors looked up), visible (is_visible returned True),   *)
(* clicks (elem.click() called), clicked (elem.click() returned) and       *)
(* navigated (page.goto called).                                           *)
(***************************************************************************)
admin_selectors ==
    << "a:has-text(\"Administration\")", "text=Administration", "[href*=\"admin\"]" >>

\* what a selector meets on the page: is_visible returns False; locator or
\* is_visible raises; is_visible returns True and click returns; is_visible
\* returns True and click raises
Outcomes == {"hidden", "raises", "clickable", "unclickable"}

scriptVars == <<disk, disk0, script, run, prev_script, prev_result, pc, idx, data,
                added_keys, updated_keys, added_log, success_count, exit_code,
                result, report, wfail, files>>

\* the lookup starts on any page; no merge script runs
InitModal ==
    /\ \E p \in [DOMAIN admin_selectors -> Outcomes] :
          modal = [pc |-> "loop", i |-> 1, admin_found |-> FALSE, page |-> p,
                   tried |-> << >>, visible |-> {}, clicks |-> << >>,
                   clicked |-> {}, navigated |-> FALSE]
    /\ disk = [l \in LocaleSet |-> MissingFile]
    /\ disk0 = disk
    /\ script = "add"
    /\ run = 1
    /\ prev_script = "none"
    /\ prev_result = [l \in LocaleSet |-> "none"]
    /\ files = Locales
    /\ pc = "idle"
    /\ idx = 1
    /\ data = << >>
    /\ added_keys = 0
    /\ updated_keys = 0
    /\ added_log = {}
    /\ success_count = 0
    /\ exit_code = -1
    /\ result = [l \in LocaleSet |-> "none"]
    /\ report = [l \in LocaleSet |-> NoReport]
    /\ wfail = [l \in LocaleSet |-> FALSE]

\* the for loop takes its next selector, or ends
NextSelector(m) ==
    [m EXCEPT !.i = m.i + 1,
              !.pc = IF m.i + 1 \in DOMAIN admin_selectors THEN "loop" ELSE "after"]

\* variant: no break after the click
FoundNoBreak(m) == NextSelector([m EXCEPT !.admin_found = TRUE])

\* admin_found = True; break
Found(m) == [m EXCEPT !.admin_found = TRUE, !.pc = "after"]

\* variant: an exception ends the loop
OnExceptBreak(m) == [m EXCEPT !.pc = "after"]

\* except: continue
OnExcept(m) == NextSelector(m)

ModalInLoop == modal.pc = "loop" /\ modal.i \in DOMAIN admin_selectors

\* is_visible returns False: the if body is skipped
TryHidden ==
    /\ ModalInLoop
    /\ modal.page[modal.i] = "hidden"
    /\ modal' = NextSelector([modal EXCEPT !.tried = Append(@, modal.i)])
    /\ UNCHANGED scriptVars

\* page.locator(selector).first or is_visible raises
TryRaises ==
    /\ ModalInLoop
    /\ modal.page[modal.i] = "raises"
    /\ modal' = OnExcept([modal EXCEPT !.tried = Append(@, modal.i)])
    /\ UNCHANGED scriptVars

\* is_visible returns True and elem.click() returns
TryClick ==
    /\ ModalInLoop
    /\ modal.page[modal.i] = "clickable"
    /\ modal' = Found([modal EXCEPT !.tried = Append(@, modal.i),
                                    !.visible = @ \cup {modal.i},
                                    !.clicks = Append(@, modal.i),
                                    !.clicked = @ \cup {modal.i}])
    /\ UNCHANGED scriptVars

\* is_visible returns True and elem.click() raises
TryClickRaises ==
    /\ ModalInLoop
    /\ modal.page[modal.i] = "unclickable"
    /\ modal' = OnExcept([modal EXCEPT !.tried = Append(@, modal.i),
                                       !.visible = @ \cup {modal.i},
                                       !.clicks = Append(@, modal.i)])
    /\ UNCHANGED scriptVars

\* if not admin_found: page.goto('http://localhost:8080/admin', ...)
Goto ==
    /\ modal.pc = "after"
    /\ ~modal.admin_found
    /\ modal' = [modal EXCEPT !.navigated = TRUE, !.pc = "done"]
    /\ UNCHANGED scriptVars

\* admin_found is True: no navigation
NoGoto ==
    /\ modal.pc = "after"
    /\ modal.admin_found
    /\ modal' = [modal EXCEPT !.pc = "done"]
    /\ UNCHANGED scriptVars

NextModal ==
    \/ TryHidden
    \/ TryRaises
    \/ TryClick
    \/ TryClickRaises
    \/ Goto
    \/ NoGoto

SpecModal == InitModal /\ [][NextModal]_vars

\* the selectors the page shows (is_visible would return True)
Shown == { i \in DOMAIN admin_selectors : modal.page[i] \in {"clickable", "unclickable"} }

\* the selectors the page shows and lets click
Clickable == { i \in DOMAIN admin_selectors : modal.page[i] = "clickable" }

First(S) == CHOOSE i \in S : \A j \in S : i <= j

\* tried is 1, 2, ... : list order, no selector twice
InListOrder == \A n \in DOMAIN modal.tried : modal.tried[n] = n

(***************************************************************************)
(* C18 as stated: the selectors are tried in list order, the first one     *)
(* whose element is visible is clicked and no later selector is tried, at  *)
(* most one click happens, and page.goto is called if and only if no       *)
(* selector was found visible.                                             *)
(***************************************************************************)
C18_FirstVisibleStops ==
    modal.pc = "done" =>
        /\ InListOrder
        /\ Shown # {} =>
              /\ \E n \in DOMAIN modal.clicks : modal.clicks[n] = First(Shown)
              /\ \A n \in DOMAIN modal.tried : modal.tried[n] <= First(Shown)
        /\ Len(modal.clicks) <= 1
        /\ modal.navigated <=> modal.visible = {}

(***************************************************************************)
(* C18 amended: the selectors are tried in list order; every selector      *)
(* found visible is clicked; a selector whose lookup or whose click raises *)
(* is skipped and the next one is tried; the loop stops at the first       *)
(* selector that is visible and whose click returns, so at most one click  *)
(* returns and no later selector is tried; page.goto is called if and only *)
(* if no click returned (admin_found is False), which is the case exactly  *)
(* when no selector is both visible and clickable.                         *)
(***************************************************************************)
C18_FirstClickedStops ==
    /\ InListOrder
    /\ \A n \in DOMAIN modal.clicks : modal.clicks[n] \in modal.visible
    /\ modal.clicked \subseteq { modal.clicks[n] : n \in DOMAIN modal.clicks }
    /\ Cardinality(modal.clicked) <= 1
    /\ modal.admin_found <=> modal.clicked # {}
    /\ \A c \in modal.clicked : \A n \in DOMAIN modal.tried : modal.tried[n] <= c
    /\ modal.pc = "done" =>
          /\ modal.visible = { i \in Shown : \A c \in Clickable : i <= c }
          /\ { modal.clicks[n] : n \in DOMAIN modal.clicks } = modal.visible
          /\ Len(modal.clicks) = Cardinality(modal.visible)
          /\ modal.clicked = IF Clickable = {} THEN {} ELSE {First(Clickable)}
          /\ Clickable = {} => Len(modal.tried) = Len(admin_selectors)
          /\ modal.navigated <=> modal.clicked = {}
    /\ modal.navigated => modal.pc = "done"

\* the first selector is visible but its click raises, the second is clicked
C18_Witness ==
    /\ modal.pc = "done"
    /\ modal.page[1] = "unclickable"
    /\ modal.page[2] = "clickable"
    /\ modal.tried = <<1, 2>>
    /\ modal.clicks = <<1, 2>>
    /\ modal.clicked = {2}
    /\ ~modal.navigated

(***************************************************************************)
(* C19: no rollback across locales.  Whatever happens to the locales       *)
(* processed later, the file of every locale whose call returned True in   *)
(* this run holds the complete patched document in json.dump's layout:     *)
(* every key of the patch with the patch's value, and every other entry of *)
(* the starting document.  So a run that returns 1 can leave locale files  *)
(* modified.                                                               *)
(***************************************************************************)
C19_NoRollback ==
    \A l \in LocaleSet :
        result[l] = "True" =>
            /\ disk[l].kind = "json"
            /\ disk[l] = Dumped(EndDoc(l))
            /\ PatchTriples(PatchOf(script, l)) \subseteq DocTriples(EndDoc(l))
            /\ \A t \in DocTriples(StartDoc(l)) :
                  <<t[1], t[2]>> \notin PatchPairs(PatchOf(script, l))
                      => t \in DocTriples(EndDoc(l))

\* main returned 1: the first locale was written, a later one failed
C19_Witness ==
    /\ pc = "done"
    /\ exit_code = 1
    /\ result[files[1]] = "True"
    /\ disk[files[1]] # disk0[files[1]]
    /\ \E i \in DOMAIN files : i > 1 /\ result[files[i]] = "False"
    /\ \E i \in DOMAIN files : i > 1 /\ wfail[files[i]]

(***************************************************************************)
(* C20: total per-locale function and terminating run.  For every input    *)
(* (missing file, malformed JSON, section that is no mapping, write        *)
(* failure) the call for a locale ends by returning True or False; the     *)
(* call is made once per locale (a return value, once recorded, is never   *)
(* replaced, and it is recorded by the call for the locale at the loop     *)
(* position); success_count counts the calls that returned True and stays  *)
(* between 0 and 3; and main always terminates returning 0 or 1.           *)
(***************************************************************************)
C20_TotalAndTerminates ==
    /\ <>(/\ pc = "done"
          /\ exit_code \in {0, 1}
          /\ \A l \in LocaleSet : result[l] \in {"True", "False"})
    /\ [][\A l \in LocaleSet :
             result'[l] # result[l] =>
                 /\ result[l] = "none"
                 /\ result'[l] \in {"True", "False"}
                 /\ l = files[idx]
                 /\ idx' = idx + 1]_vars
    /\ [](/\ success_count = Cardinality({ l \in LocaleSet : result[l] = "True" })
          /\ success_count \in 0..3
          /\ pc = "done" => exit_code \in {0, 1}
          /\ pc # "done" => exit_code = -1)

\* main returned 1 after one success, one load failure and one write failure
C20_Witness ==
    /\ pc = "done"
    /\ exit_code = 1
    /\ success_count = 1
    /\ \E a, b, c \in LocaleSet :
          /\ result[a] = "True"
          /\ result[b] = "False" /\ ~Loads(disk0[b])
          /\ result[c] = "False" /\ wfail[c]

(***************************************************************************)
(* C21: count conservation.  After a successful merge, added is the number *)
(* of (section, key) pairs of the resulting document minus the number of   *)
(* (section, key) pairs of the starting document, and added + updated is   *)
(* at most the number of keys of the patch.  This holds for the counters   *)
(* of the running call once the merge loop has ended, and for the counts   *)
(* every call that returned True has printed.                              *)
(***************************************************************************)
C21_CountConservation ==
    /\ pc \in {"merged", "opened"} =>
          /\ added_keys = Cardinality(DocPairs(data))
                          - Cardinality(DocPairs(StartDoc(files[idx])))
          /\ added_keys + updated_keys
                <= Cardinality(PatchPairs(PatchOf(script, files[idx])))
    /\ \A l \in LocaleSet :
          Succeeded(l) =>
              /\ report[l].added = Cardinality(DocPairs(EndDoc(l)))
                                   - Cardinality(DocPairs(StartDoc(l)))
              /\ report[l].added + report[l].updated
                    <= Cardinality(PatchPairs(PatchOf(script, l)))
              /\ report[l].added >= 0
              /\ report[l].updated >= 0

\* add succeeded on a document holding a key the patch does not list and a
\* patch key with another value: two keys added, one updated
C21_Witness ==
    \E l \in LocaleSet :
        /\ script = "add" /\ Succeeded(l)
        /\ <<HUB, "legacy">> \in DocPairs(StartDoc(l))
        /\ <<HUB, "title">> \in DocPairs(StartDoc(l))
        /\ report[l].added = 2
        /\ report[l].updated = 1
        /\ Cardinality(DocPairs(EndDoc(l))) = 4

====
